---- MODULE Spec2Model ----
(***************************************************************************)
(* Model of asreqroast.py: a live Kerberos AS-REQ listener.  A tshark      *)
(* subprocess writes '$'-separated lines to a pipe; TsharkListener.run     *)
(* reads them, parses and formats each one, prints it and appends it to    *)
(* two files; a signal handler calls TsharkListener.shutdown.              *)
(*                                                                         *)
(* Python strings are sequences of one-character strings, so that          *)
(* str.strip, str.split and f-string rendering are computed, not assumed.  *)
(***************************************************************************)
EXTENDS Integers, Sequences, FiniteSets, TLC

\* ------------------------------------------------------------------ bounds
\* lines the decoder writes during one run
MaxLines == 3
\* SIGINT/SIGTERM deliveries to the controlling process during one run
MaxSignals == 1
\* lines the decoder writes during one run, where liveness is checked
MaxLiveLines == 2
\* length of the lines given to parse_asreq_line on its own
MaxLen == 6
\* length of each field given to format_asreq_hash on its own
MaxField == 2

\* ----------------------------------------------------------------- strings
None == <<>>

\* what str.strip() removes (the ASCII members used by the model)
Whitespace == {" ", "\t", "\n"}

RECURSIVE lstrip(_)
lstrip(s) ==
    IF s = <<>> THEN <<>>
    ELSE IF Head(s) \in Whitespace THEN lstrip(Tail(s)) ELSE s

RECURSIVE rstrip(_)
rstrip(s) ==
    IF s = <<>> THEN <<>>
    ELSE IF s[Len(s)] \in Whitespace THEN rstrip(SubSeq(s, 1, Len(s) - 1)) ELSE s

strip(s) == rstrip(lstrip(s))

\* str.split(sep) with a one-character separator: always at least one part
RECURSIVE split(_, _)
split(s, sep) ==
    IF \A i \in 1..Len(s) : s[i] # sep THEN <<s>>
    ELSE LET i == CHOOSE k \in 1..Len(s) :
                     s[k] = sep /\ \A j \in 1..(k - 1) : s[j] # sep
         IN  <<SubSeq(s, 1, i - 1)>> \o split(SubSeq(s, i + 1, Len(s)), sep)

LowerChar(c) ==
    CASE c = "J" -> "j" [] c = "O" -> "o" [] c = "H" -> "h" [] c = "N" -> "n"
      [] c = "A" -> "a" [] c = "S" -> "s" [] c = "C" -> "c" [] c = "T" -> "t"
      [] OTHER -> c

\* str.lower()
lower(s) == [i \in 1..Len(s) |-> LowerChar(s[i])]

\* An f-string is a sequence of literal pieces and replacement fields;
\* rendering substitutes each field by its value, with no escaping.
Lit(chars) == [kind |-> "lit", val |-> chars]
Fld(name) == [kind |-> "fld", val |-> name]

RECURSIVE Render(_, _)
Render(tpl, env) ==
    IF tpl = <<>> THEN <<>>
    ELSE LET p == Head(tpl)
         IN  (IF p.kind = "lit" THEN p.val ELSE env[p.val]) \o Render(Tail(tpl), env)

\* ------------------------------------------------------------ pure functions
JOHN == <<"j", "o", "h", "n">>
HASHCAT == <<"h", "a", "s", "h", "c", "a", "t">>

\* "$krb5pa$18$"
KrbPrefix == <<"$", "k", "r", "b", "5", "p", "a", "$", "1", "8", "$">>

JohnTemplate ==
    << Lit(KrbPrefix), Fld("username"), Lit(<<"$">>), Fld("domain"),
       Lit(<<"$", "$">>), Fld("cipher") >>

HashcatTemplate ==
    << Lit(KrbPrefix), Fld("username"), Lit(<<"$">>), Fld("domain"),
       Lit(<<"$">>), Fld("cipher") >>

\* a slip: the two templates exchanged
format_asreq_hash_swapped(username, domain, cipher, fmt) ==
    LET env == [username |-> username, domain |-> domain, cipher |-> cipher]
    IN  IF lower(fmt) = JOHN THEN Render(HashcatTemplate, env)
        ELSE Render(JohnTemplate, env)

\* a slip: the format compared without lower()
format_asreq_hash_case(username, domain, cipher, fmt) ==
    LET env == [username |-> username, domain |-> domain, cipher |-> cipher]
    IN  IF fmt = JOHN THEN Render(JohnTemplate, env)
        ELSE Render(HashcatTemplate, env)

format_asreq_hash(username, domain, cipher, fmt) ==
    LET env == [username |-> username, domain |-> domain, cipher |-> cipher]
    IN  IF lower(fmt) = JOHN THEN Render(JohnTemplate, env)
        ELSE Render(HashcatTemplate, env)

\* a slip: each field trimmed on its own, not the line
parse_asreq_line_per_field(l) ==
    LET parts == split(l, "$")
    IN  IF Len(parts) # 3 THEN None
        ELSE IF strip(parts[1]) = <<>> \/ strip(parts[2]) = <<>>
                \/ strip(parts[3]) = <<>> THEN None
        ELSE <<strip(parts[1]), strip(parts[2]), strip(parts[3])>>

\* a slip: split("$", 2), which leaves every later '$' in the cipher
parse_asreq_line_maxsplit(l) ==
    LET s == strip(l)
        at == {i \in 1..Len(s) : s[i] = "$"}
    IN  IF Cardinality(at) < 2 THEN None
        ELSE LET i == CHOOSE k \in at : \A x \in at : k <= x
                 j == CHOOSE k \in at \ {i} : \A x \in at \ {i} : k <= x
                 username == SubSeq(s, 1, i - 1)
                 domain == SubSeq(s, i + 1, j - 1)
                 cipher == SubSeq(s, j + 1, Len(s))
             IN  IF username = <<>> \/ domain = <<>> \/ cipher = <<>> THEN None
                 ELSE <<username, domain, cipher>>

\* a slip: the test for empty fields left out
parse_asreq_line_no_empty_test(l) ==
    LET parts == split(strip(l), "$")
    IN  IF Len(parts) # 3 THEN None
        ELSE <<parts[1], parts[2], parts[3]>>

parse_asreq_line(l) ==
    LET parts == split(strip(l), "$")
    IN  IF Len(parts) # 3 THEN None
        ELSE IF parts[1] = <<>> \/ parts[2] = <<>> \/ parts[3] = <<>> THEN None
        ELSE <<parts[1], parts[2], parts[3]>>


\* ------------------------------------------------------------------- state
VARIABLES
    pc,         \* position of the controlling process in main()
    proc,       \* self.proc: "None" or "Popen"
    stop,       \* self.stop
    no_files,   \* self.no_files
    format,     \* self.format (the fmt argument when format_asreq_hash runs alone)
    line,       \* run(): the loop variable
    parsed,     \* run(): (username, domain, cipher), or None
    hash_str,   \* run(): the formatted hash
    exc,        \* the exception propagating out of main(), "none" if there is none
    tshark,     \* the subprocess: "unborn", "running", "closing", "zombie", "reaped"
    sigterm,    \* a SIGTERM is pending for the subprocess
    stdout,     \* lines written by the subprocess and not yet read
    console,    \* what the controlling process has printed
    fs,         \* the output directory: [dir, files]
    fs0,        \* history: the output directory when the listener was built
    delivered,  \* history: every line the subprocess has written
    processed,  \* history: the lines that passed the loop's stop check
    sent,       \* history: the signals the controlling process has sent
    nsig        \* history: signals delivered to the controlling process

vars == <<pc, proc, stop, no_files, format, line, parsed, hash_str, exc, tshark,
          sigterm, stdout, console, fs, fs0, delivered, processed, sent, nsig>>

locals == <<line, parsed, hash_str>>
config == <<no_files, format, fs0>>
session == <<proc, stop, tshark, sigterm, sent>>

\* ------------------------------------------------------------- file system
TxtSuffix == <<".", "t", "x", "t">>

\* out_dir / f"{username}_{domain}.txt", relative to out_dir
user_file(username, domain) ==
    Render(<<Fld("username"), Lit(<<"_">>), Fld("domain"), Lit(TxtSuffix)>>,
           [username |-> username, domain |-> domain])

\* out_dir / f"all_hashes_{self.format}.txt", relative to out_dir
all_hashes_file(fmt) ==
    Render(<<Lit(<<"a", "l", "l", "_", "h", "a", "s", "h", "e", "s", "_">>),
             Fld("format"), Lit(TxtSuffix)>>,
           [format |-> fmt])

\* a slip: the file opened with "w", which truncates it
append_line_truncating(files, name, text) ==
    IF name \in DOMAIN files
    THEN [files EXCEPT ![name] = <<text>>]
    ELSE files @@ (name :> <<text>>)

\* open(name, "a") ; write(text + "\n") ; close: creates the file when absent
append_line(files, name, text) ==
    IF name \in DOMAIN files
    THEN [files EXCEPT ![name] = Append(@, text)]
    ELSE files @@ (name :> <<text>>)

\* ----------------------------------------------------------------- console
Say(kind, text) == [kind |-> kind, text |-> text]

\* ------------------------------------------------------------ the subprocess
\* The lines tshark can write: each ends with the newline the iterator keeps.
ValidA == <<"a", "_", "b", "$", "R", "$", "c", "\n">>
ValidB == <<" ", "a", "$", "b", "_", "R", "$", "d", "\n">>
BlankLine == <<"\n">>
ValidC == <<"b", "$", "R", "$", "c", "\n">>
EmptyField == <<"a", "$", "$", "c", "\n">>

DecoderLines == {ValidA, ValidB, ValidC, BlankLine, EmptyField}

\* what was on disk before the run, when the output directory already held files
OldHash == <<"o", "l", "d">>

OldFiles(fmt) ==
    (all_hashes_file(fmt) :> <<OldHash>>) @@
    (user_file(<<"a", "_", "b">>, <<"R">>) :> <<OldHash>>)

NoFiles == [n \in {} |-> <<>>]

\* The output directory before the program ran: absent, or left by an earlier
\* run that wrote files.
Before(nf, fmt) ==
    IF nf THEN [dir |-> FALSE, files |-> NoFiles]
    ELSE [dir |-> TRUE, files |-> OldFiles(fmt)]

\* ensure_output_dir: mkdir(parents, exist_ok) unless no_files
ensure_output_dir(before, nf) ==
    IF ~nf THEN [before EXCEPT !.dir = TRUE] ELSE before

\* -------------------------------------------------------------------- Init
Init ==
    /\ pc = "start"
    /\ proc = "None"
    /\ stop = FALSE
    /\ no_files \in BOOLEAN
    /\ format \in {HASHCAT, JOHN}
    /\ line = <<>>
    /\ parsed = None
    /\ hash_str = <<>>
    /\ exc = "none"
    /\ tshark = "unborn"
    /\ sigterm = FALSE
    /\ stdout = <<>>
    /\ console = <<>>
    /\ fs0 = ensure_output_dir(Before(no_files, format), no_files)
    /\ fs = fs0
    /\ delivered = <<>>
    /\ processed = <<>>
    /\ sent = <<>>
    /\ nsig = 0


\* ------------------------------------------------------- TsharkListener.shutdown
\* The part of the state shutdown() reads and writes, plus whether it raised.
Session ==
    [stop |-> stop, proc |-> proc, tshark |-> tshark, sigterm |-> sigterm,
     sent |-> sent, raised |-> FALSE]

\* os.killpg(os.getpgid(pid), SIGTERM): once the child is reaped its pid names
\* no process and getpgid raises ProcessLookupError; a zombie takes the signal
\* and discards it.
killpg(s) ==
    IF s.tshark = "reaped" THEN [s EXCEPT !.raised = TRUE]
    ELSE [s EXCEPT !.sigterm = @ \/ (s.tshark \in {"running", "closing"}),
                   !.sent = Append(@, "killpg")]

\* a slip: the signal sent outside any try
shutdown_unguarded(s) ==
    LET flagged == [s EXCEPT !.stop = TRUE]
    IN  IF flagged.proc = "None" THEN flagged ELSE killpg(flagged)

\* a slip: the flag set and the process group left alone
shutdown_flag_only(s) == [s EXCEPT !.stop = TRUE]

shutdown(s) ==
    LET flagged == [s EXCEPT !.stop = TRUE]
    IN  IF flagged.proc = "None" THEN flagged
        ELSE [killpg(flagged) EXCEPT !.raised = FALSE]    \* except Exception: pass

\* ------------------------------------------------------------ main(), start()
\* listener.start(): Popen succeeds
start ==
    /\ pc = "start"
    /\ proc' = "Popen"
    /\ tshark' = "running"
    /\ console' = Append(console, Say("started", <<>>))
    /\ pc' = "read"
    /\ UNCHANGED <<stop, config, locals, exc, sigterm, stdout, fs, delivered,
                   processed, sent, nsig>>

\* listener.start(): Popen raises OSError, self.proc stays None
start_fails ==
    /\ pc = "start"
    /\ exc' = "PopenError"
    /\ pc' = "finally"
    /\ UNCHANGED <<proc, stop, config, locals, tshark, sigterm, stdout, console,
                   fs, delivered, processed, sent, nsig>>

\* ------------------------------------------------------- TsharkListener.run
EndOfFile == stdout = <<>> /\ tshark \in {"closing", "zombie", "reaped"}

\* a slip: the newest line taken first
next_line_newest_first ==
    /\ pc = "read"
    /\ \/ /\ stdout # <<>>
          /\ line' = stdout[Len(stdout)]
          /\ stdout' = SubSeq(stdout, 1, Len(stdout) - 1)
          /\ pc' = "check_stop"
       \/ /\ EndOfFile
          /\ pc' = "drain"
          /\ UNCHANGED <<line, stdout>>
    /\ UNCHANGED <<proc, stop, config, parsed, hash_str, exc, tshark, sigterm,
                   console, fs, delivered, processed, sent, nsig>>

\* for line in self.proc.stdout: blocks until a line or end of file
next_line ==
    /\ pc = "read"
    /\ \/ /\ stdout # <<>>
          /\ line' = Head(stdout)
          /\ stdout' = Tail(stdout)
          /\ pc' = "check_stop"
       \/ /\ EndOfFile
          /\ pc' = "drain"
          /\ UNCHANGED <<line, stdout>>
    /\ UNCHANGED <<proc, stop, config, parsed, hash_str, exc, tshark, sigterm,
                   console, fs, delivered, processed, sent, nsig>>

\* a slip: the flag not looked at
check_stop_ignored ==
    /\ pc = "check_stop"
    /\ pc' = "process" /\ processed' = Append(processed, line)
    /\ UNCHANGED <<proc, stop, config, locals, exc, tshark, sigterm, stdout,
                   console, fs, delivered, sent, nsig>>

\* if self.stop: break
check_stop ==
    /\ pc = "check_stop"
    /\ IF stop
       THEN pc' = "drain" /\ UNCHANGED processed
       ELSE pc' = "process" /\ processed' = Append(processed, line)
    /\ UNCHANGED <<proc, stop, config, locals, exc, tshark, sigterm, stdout,
                   console, fs, delivered, sent, nsig>>

\* a slip: the record written before it is shown
process_line_writes_first ==
    /\ pc = "process"
    /\ line' = strip(line)
    /\ IF line' = <<>>
       THEN pc' = "read" /\ UNCHANGED <<parsed, hash_str>>
       ELSE LET p == parse_asreq_line(line')
            IN  IF p = None
                THEN pc' = "read" /\ UNCHANGED <<parsed, hash_str>>
                ELSE /\ parsed' = p
                     /\ hash_str' = format_asreq_hash(p[1], p[2], p[3], format)
                     /\ pc' = IF no_files THEN "print" ELSE "write_user"
    /\ UNCHANGED <<proc, stop, config, exc, tshark, sigterm, stdout, console, fs,
                   delivered, processed, sent, nsig>>

\* line.strip(), the blank test, parse_asreq_line, format_asreq_hash
process_line ==
    /\ pc = "process"
    /\ line' = strip(line)
    /\ IF line' = <<>>
       THEN pc' = "read" /\ UNCHANGED <<parsed, hash_str>>
       ELSE LET p == parse_asreq_line(line')
            IN  IF p = None
                THEN pc' = "read" /\ UNCHANGED <<parsed, hash_str>>
                ELSE /\ parsed' = p
                     /\ hash_str' = format_asreq_hash(p[1], p[2], p[3], format)
                     /\ pc' = "print"
    /\ UNCHANGED <<proc, stop, config, exc, tshark, sigterm, stdout, console, fs,
                   delivered, processed, sent, nsig>>

\* f"{username}@{domain}" of the console line (the timestamp is left out)
Who(p) ==
    Render(<<Fld("username"), Lit(<<"@">>), Fld("domain")>>,
           [username |-> p[1], domain |-> p[2]])

\* a slip: the no_files test left out
print_capture_always_writes ==
    /\ pc = "print"
    /\ console' = console \o <<Say("captured", Who(parsed)), Say("hash", hash_str)>>
    /\ pc' = "write_user"
    /\ UNCHANGED <<proc, stop, config, locals, exc, tshark, sigterm, stdout, fs,
                   delivered, processed, sent, nsig>>

\* the two print calls, then: if not self.no_files
print_capture ==
    /\ pc = "print"
    /\ console' = console \o <<Say("captured", Who(parsed)), Say("hash", hash_str)>>
    /\ pc' = IF no_files THEN "read" ELSE "write_user"
    /\ UNCHANGED <<proc, stop, config, locals, exc, tshark, sigterm, stdout, fs,
                   delivered, processed, sent, nsig>>

\* write_output(self.out_dir, username, domain, hash_str); an OSError leaves run()
write_output ==
    /\ pc = "write_user"
    /\ \/ /\ fs' = [fs EXCEPT !.files =
                       append_line(@, user_file(parsed[1], parsed[2]), hash_str)]
          /\ pc' = "write_all"
          /\ UNCHANGED exc
       \/ /\ exc' = "AppendError"
          /\ pc' = "finally"
          /\ UNCHANGED fs
    /\ UNCHANGED <<proc, stop, config, locals, tshark, sigterm, stdout, console,
                   delivered, processed, sent, nsig>>

\* with self.all_hashes_file.open("a") as f: f.write(...)
write_all_hashes ==
    /\ pc = "write_all"
    /\ \/ /\ fs' = [fs EXCEPT !.files =
                       append_line(@, all_hashes_file(format), hash_str)]
          /\ pc' = "read"
          /\ UNCHANGED exc
       \/ /\ exc' = "AppendError"
          /\ pc' = "finally"
          /\ UNCHANGED fs
    /\ UNCHANGED <<proc, stop, config, locals, tshark, sigterm, stdout, console,
                   delivered, processed, sent, nsig>>

\* Popen.poll(): reaps a zombie; TRUE when the child is still running
poll_is_None == tshark \in {"running", "closing"}

\* a slip: the child polled and never asked to terminate
drain_without_terminate ==
    /\ pc = "drain"
    /\ tshark' = IF proc # "None" /\ tshark = "zombie" THEN "reaped" ELSE tshark
    /\ pc' = "finally"
    /\ UNCHANGED <<proc, stop, config, locals, exc, stdout, console, fs,
                   delivered, processed, nsig, sigterm, sent>>

\* a slip: the capture started again when the loop has ended
drain_restarts ==
    /\ pc = "drain"
    /\ pc' = "start"
    /\ UNCHANGED <<proc, stop, config, locals, exc, stdout, console, fs,
                   delivered, processed, nsig, sigterm, sent, tshark>>

\* after the loop: if self.proc and self.proc.poll() is None: self.proc.terminate()
drain ==
    /\ pc = "drain"
    /\ IF proc # "None" /\ poll_is_None
       THEN /\ sigterm' = TRUE
            /\ sent' = Append(sent, "terminate")
            /\ UNCHANGED tshark
       ELSE /\ tshark' = IF proc # "None" /\ tshark = "zombie" THEN "reaped" ELSE tshark
            /\ UNCHANGED <<sigterm, sent>>
    /\ pc' = "finally"
    /\ UNCHANGED <<proc, stop, config, locals, exc, stdout, console, fs,
                   delivered, processed, nsig>>

\* finally: listener.shutdown(); print("[+] Listener stopped. ...")
finally ==
    /\ pc = "finally"
    /\ LET r == shutdown(Session)
       IN  /\ stop' = r.stop
           /\ sigterm' = r.sigterm
           /\ sent' = r.sent
           /\ exc' = IF r.raised THEN "ProcessLookupError" ELSE exc
           /\ console' = IF r.raised THEN console
                         ELSE Append(console, Say("stopped", <<>>))
    /\ pc' = "done"
    /\ UNCHANGED <<proc, config, locals, tshark, stdout, fs, delivered,
                   processed, nsig>>

\* a slip: the handler ends by raising into main(), as the default SIGINT
\* handler does with KeyboardInterrupt
handle_sigint_raises ==
    /\ pc # "done"
    /\ nsig < MaxSignals
    /\ nsig' = nsig + 1
    /\ LET r == shutdown(Session)
       IN  /\ stop' = r.stop
           /\ sigterm' = r.sigterm
           /\ sent' = r.sent
    /\ exc' = "KeyboardInterrupt"
    /\ pc' = "finally"
    /\ console' = Append(console, Say("stopping", <<>>))
    /\ UNCHANGED <<proc, config, locals, tshark, stdout, fs, delivered, processed>>

\* handle_sigint: runs between two steps of main(), or inside its blocked read
handle_sigint ==
    /\ pc # "done"
    /\ nsig < MaxSignals
    /\ nsig' = nsig + 1
    /\ LET r == shutdown(Session)
       IN  /\ stop' = r.stop
           /\ sigterm' = r.sigterm
           /\ sent' = r.sent
           /\ IF r.raised
              THEN exc' = "ProcessLookupError" /\ pc' = "finally"
              ELSE UNCHANGED <<exc, pc>>
    /\ console' = Append(console, Say("stopping", <<>>))
    /\ UNCHANGED <<proc, config, locals, tshark, stdout, fs, delivered, processed>>

\* ---------------------------------------------------------------- tshark
\* tshark writes one more line to its stdout, while the run has fewer than limit
writes_line(limit, lines) ==
    /\ tshark = "running"
    /\ Len(delivered) < limit
    /\ \E l \in lines :
           /\ stdout' = Append(stdout, l)
           /\ delivered' = Append(delivered, l)
    /\ UNCHANGED <<pc, proc, stop, config, locals, exc, tshark, sigterm, console,
                   fs, processed, sent, nsig>>

tshark_writes == writes_line(MaxLines, DecoderLines)

\* tshark ends on its own (interface error, capture ended): its stdout closes
tshark_exits ==
    /\ tshark = "running"
    /\ ~sigterm
    /\ tshark' = "closing"
    /\ UNCHANGED <<pc, proc, stop, config, locals, exc, sigterm, stdout, console,
                   fs, delivered, processed, sent, nsig>>

\* tshark takes the pending SIGTERM and ends: its stdout closes
tshark_terminated ==
    /\ tshark = "running"
    /\ sigterm
    /\ tshark' = "closing"
    /\ UNCHANGED <<pc, proc, stop, config, locals, exc, sigterm, stdout, console,
                   fs, delivered, processed, sent, nsig>>

\* the exiting tshark becomes a zombie, which poll() can reap
tshark_dies ==
    /\ tshark = "closing"
    /\ tshark' = "zombie"
    /\ UNCHANGED <<pc, proc, stop, config, locals, exc, sigterm, stdout, console,
                   fs, delivered, processed, sent, nsig>>

MainStep ==
    \/ start \/ start_fails \/ next_line \/ check_stop \/ process_line
    \/ print_capture \/ write_output \/ write_all_hashes \/ drain \/ finally

Next ==
    \/ start \/ start_fails \/ next_line \/ check_stop \/ process_line
    \/ print_capture \/ write_output \/ write_all_hashes \/ drain \/ finally
    \/ handle_sigint
    \/ tshark_writes \/ tshark_exits \/ tshark_terminated \/ tshark_dies

Spec == Init /\ [][Next]_vars


\* ------------------------------------------- the two pure functions on their own
\* every string over the alphabet, up to the length
Strings(alphabet, n) == UNION {[1..k -> alphabet] : k \in 0..n}

ParseAlphabet == {"a", "b", "$", " "}
FieldAlphabet == {"a", "b", "$"}
MixedJohn == <<"J", "o", "h", "n">>
Formats == {HASHCAT, JOHN, MixedJohn}

\* One call of parse_asreq_line or of format_asreq_hash, its arguments drawn
\* from the bounded sets; the session does not run.
FunInit ==
    /\ proc = "None" /\ stop = FALSE /\ no_files = TRUE /\ exc = "none"
    /\ tshark = "unborn" /\ sigterm = FALSE /\ stdout = <<>> /\ console = <<>>
    /\ fs = [dir |-> FALSE, files |-> NoFiles] /\ fs0 = fs
    /\ delivered = <<>> /\ processed = <<>> /\ sent = <<>> /\ nsig = 0
    /\ hash_str = <<>>
    /\ \/ /\ pc = "call_parse"
          /\ line \in Strings(ParseAlphabet, MaxLen)
          /\ parsed = None
          /\ format \in {HASHCAT, JOHN}
       \/ /\ pc = "call_format"
          /\ line = <<>>
          /\ \E u, d, c \in Strings(FieldAlphabet, MaxField) : parsed = <<u, d, c>>
          /\ format \in Formats

call_parse_asreq_line ==
    /\ pc = "call_parse"
    /\ parsed' = parse_asreq_line(line)
    /\ pc' = "ret_parse"
    /\ UNCHANGED <<proc, stop, config, line, hash_str, exc, tshark, sigterm,
                   stdout, console, fs, delivered, processed, sent, nsig>>

call_format_asreq_hash ==
    /\ pc = "call_format"
    /\ hash_str' = format_asreq_hash(parsed[1], parsed[2], parsed[3], format)
    /\ pc' = "ret_format"
    /\ UNCHANGED <<proc, stop, config, line, parsed, exc, tshark, sigterm,
                   stdout, console, fs, delivered, processed, sent, nsig>>

\* run(): the record the parser returned goes to the formatter as it is
format_parsed ==
    /\ pc = "ret_parse"
    /\ parsed # None
    /\ hash_str' = format_asreq_hash(parsed[1], parsed[2], parsed[3], format)
    /\ pc' = "ret_run"
    /\ UNCHANGED <<proc, stop, config, line, parsed, exc, tshark, sigterm,
                   stdout, console, fs, delivered, processed, sent, nsig>>

FunNext == call_parse_asreq_line \/ call_format_asreq_hash \/ format_parsed

FunSpec == FunInit /\ [][FunNext]_vars

\* --------------------------------------------------------------- C1 .. C4
HasNo(ch, s) == \A i \in 1..Len(s) : s[i] # ch

\* the line is U $ D $ C, cut at its i-th and j-th characters
Cut(l, i, j) ==
    [U |-> SubSeq(l, 1, i - 1), D |-> SubSeq(l, i + 1, j - 1),
     C |-> SubSeq(l, j + 1, Len(l))]

IsCut(l, i, j) ==
    /\ i < j /\ l[i] = "$" /\ l[j] = "$"
    /\ Cut(l, i, j).U # <<>> /\ Cut(l, i, j).D # <<>> /\ Cut(l, i, j).C # <<>>

\* C1 as stated: for every line U$D$C with non-empty U, D and C (the three
\* '$'-separated fields), parse_asreq_line returns (U, D, C).
C1_AnyFields ==
    pc = "ret_parse" =>
        \A i, j \in 1..Len(line) :
            LET f == Cut(line, i, j)
            IN  (/\ IsCut(line, i, j)
                 /\ HasNo("$", f.U) /\ HasNo("$", f.D) /\ HasNo("$", f.C))
                => parsed = <<f.U, f.D, f.C>>

\* C1 amended: for every line U$D$C with non-empty U, D and C, U not starting
\* and C not ending with whitespace, parse_asreq_line returns (U, D, C) in that
\* order.
C1_WellFormedLine ==
    pc = "ret_parse" =>
        \A i, j \in 1..Len(line) :
            LET f == Cut(line, i, j)
            IN  (/\ IsCut(line, i, j)
                 /\ HasNo("$", f.U) /\ HasNo("$", f.D) /\ HasNo("$", f.C)
                 /\ f.U[1] \notin Whitespace
                 /\ f.C[Len(f.C)] \notin Whitespace)
                => parsed = <<f.U, f.D, f.C>>

C1_Witness ==
    /\ pc = "ret_parse"
    /\ line = <<"b", "$", " ", "a", "$", "a">>
    /\ parsed = << <<"b">>, <<" ", "a">>, <<"a">> >>

\* the line with its surrounding whitespace removed, by position
Trimmed(l) ==
    LET ink == {i \in 1..Len(l) : l[i] \notin Whitespace}
    IN  IF ink = {} THEN <<>>
        ELSE SubSeq(l, CHOOSE i \in ink : \A k \in ink : i <= k,
                       CHOOSE i \in ink : \A k \in ink : i >= k)

Dollars(l) == Cardinality({i \in 1..Len(l) : l[i] = "$"})

EmptyPart(t) ==
    \/ t = <<>>
    \/ t[1] = "$"
    \/ t[Len(t)] = "$"
    \/ \E k \in 1..(Len(t) - 1) : t[k] = "$" /\ t[k + 1] = "$"

\* C2: a line that is empty, whitespace-only, has a number of '$'-separated
\* parts other than 3, or has an empty part once the whole line is trimmed,
\* yields no record.
C2_Rejected ==
    (/\ pc = "ret_parse"
     /\ \/ line = <<>>
        \/ \A i \in 1..Len(line) : line[i] \in Whitespace
        \/ Dollars(line) + 1 # 3
        \/ EmptyPart(Trimmed(line)))
    => parsed = None

C2_Witness ==
    /\ pc = "ret_parse"
    /\ line = <<" ", "$", "a", "$", "b", " ">>
    /\ parsed = None

\* C3: in Hashcat mode the hash is "$krb5pa$18$" + principal + "$" + realm +
\* "$" + cipher, the fields copied as they are.
C3_Hashcat ==
    (pc = "ret_format" /\ format = HASHCAT) =>
        hash_str = KrbPrefix \o parsed[1] \o <<"$">> \o parsed[2] \o <<"$">> \o parsed[3]

C3_Witness ==
    /\ pc = "ret_format"
    /\ format = HASHCAT
    /\ parsed = << <<"a", "$">>, <<"b">>, <<"$", "a">> >>
    /\ Len(hash_str) = 18

\* C4: in John mode the hash is "$krb5pa$18$" + principal + "$" + realm +
\* "$$" + cipher: a doubled '$' before the cipher.
C4_John ==
    (pc = "ret_format" /\ format \in {JOHN, MixedJohn}) =>
        hash_str = KrbPrefix \o parsed[1] \o <<"$">> \o parsed[2]
                       \o <<"$", "$">> \o parsed[3]

C4_Witness ==
    /\ pc = "ret_format"
    /\ format = MixedJohn
    /\ parsed = << <<"a">>, <<"b">>, <<"a", "b">> >>
    /\ hash_str[15] = "$" /\ hash_str[16] = "$" /\ Len(hash_str) = 18


\* --------------------------------------------------------------- C5 .. C7
Front(s) == SubSeq(s, 1, Len(s) - 1)

Texts(kind) ==
    LET es == SelectSeq(console, LAMBDA e : e.kind = kind)
    IN  [i \in 1..Len(es) |-> es[i].text]

\* the hashes printed so far, in the order printed
ConsoleHashes == Texts("hash")

\* the hash the two formats prescribe for a record
ExpectedHash(p, fmt) ==
    KrbPrefix \o p[1] \o <<"$">> \o p[2]
        \o (IF fmt = JOHN THEN <<"$", "$">> ELSE <<"$">>) \o p[3]

\* what the parser returns for each line the decoder can write
ParserSays == [l \in DecoderLines |-> parse_asreq_line(l)]

\* the hash prescribed for each line the decoder can write, None if unparseable
HashSays ==
    [l \in DecoderLines, f \in {HASHCAT, JOHN} |->
        IF ParserSays[l] = None THEN None ELSE ExpectedHash(ParserSays[l], f)]

\* the hashes of the parseable lines among the given ones, in their order
RECURSIVE HashesOf(_)
HashesOf(lines) ==
    IF lines = <<>> THEN <<>>
    ELSE (IF ParserSays[Head(lines)] = None THEN <<>>
          ELSE <<HashSays[Head(lines), format]>>) \o HashesOf(Tail(lines))

\* the lines the loop has taken up whose report has been printed or skipped
Reported == IF pc \in {"process", "print"} THEN Front(processed) ELSE processed

\* C5: the hashes on the console are those of the parseable lines the loop took
\* up, in arrival order, with nothing for a blank or unparseable line; and when
\* the stream ends with no shutdown requested, those are all the lines the
\* decoder delivered.
C5_Fifo ==
    /\ ConsoleHashes = HashesOf(Reported)
    /\ (pc = "drain" /\ ~stop) => ConsoleHashes = HashesOf(delivered)

C5_Witness ==
    /\ pc = "drain" /\ ~stop
    /\ delivered = <<ValidC, EmptyField, ValidB>>
    /\ Len(ConsoleHashes) = 2
    /\ ConsoleHashes[2][12] = "a"

Content(files, name) == IF name \in DOMAIN files THEN files[name] ELSE <<>>

UserName(p) == p[1] \o <<"_">> \o p[2] \o TxtSuffix

AggregateName ==
    <<"a", "l", "l", "_", "h", "a", "s", "h", "e", "s", "_">> \o format \o TxtSuffix

\* the per-identity file name of each line the decoder can write
NameSays ==
    [l \in DecoderLines |->
        IF ParserSays[l] = None THEN None ELSE UserName(ParserSays[l])]

\* the hashes of the parseable lines among the given ones that belong in the
\* per-identity file of that name
RECURSIVE HashesFor(_, _)
HashesFor(name, lines) ==
    IF lines = <<>> THEN <<>>
    ELSE (IF ParserSays[Head(lines)] # None /\ NameSays[Head(lines)] = name
          THEN <<HashSays[Head(lines), format]>> ELSE <<>>)
             \o HashesFor(name, Tail(lines))

UserNames(lines) ==
    {NameSays[lines[i]] : i \in {k \in 1..Len(lines) : ParserSays[lines[k]] # None}}

\* the lines whose append to the per-identity file, and to the aggregate file,
\* is over
UserDone ==
    IF pc \in {"process", "print", "write_user"} THEN Front(processed) ELSE processed
AggregateDone ==
    IF pc \in {"process", "print", "write_user", "write_all"}
    THEN Front(processed) ELSE processed

\* the files hold what they held before the run, then one hash per parsed line
\* of userLines (per-identity files) and of aggregateLines (aggregate file)
Holds(userLines, aggregateLines) ==
    /\ DOMAIN fs.files =
           DOMAIN fs0.files \cup UserNames(userLines)
               \cup (IF HashesOf(aggregateLines) # <<>> THEN {AggregateName} ELSE {})
    /\ \A n \in DOMAIN fs.files \ {AggregateName} :
           fs.files[n] = Content(fs0.files, n) \o HashesFor(n, userLines)
    /\ Content(fs.files, AggregateName) =
           Content(fs0.files, AggregateName) \o HashesOf(aggregateLines)

\* C6: with persistence enabled, each file holds what it held before the run
\* followed by one line per parsed line, repeated lines included: the
\* per-identity file those of its name, the aggregate file all of them.  Once an
\* append has failed, this is so for the lines before the failing one.
C6_Persisted ==
    ~no_files =>
        IF exc # "AppendError" THEN Holds(UserDone, AggregateDone)
        ELSE \/ Holds(Front(processed), Front(processed))
             \/ Holds(processed, Front(processed))

C6_Witness ==
    /\ ~no_files /\ exc = "none" /\ pc = "read"
    /\ processed = <<ValidA, ValidC, ValidA>>
    /\ Len(fs.files[AggregateName]) = 4
    /\ fs.files[AggregateName][2] = fs.files[AggregateName][4]
    /\ Len(fs.files[NameSays[ValidA]]) = 3
    /\ Len(fs.files[NameSays[ValidC]]) = 1

\* what the console says about the records: who, then the hash
Reports ==
    LET es == SelectSeq(console, LAMBDA e : e.kind \in {"captured", "hash"})
    IN  [i \in 1..Len(es) |-> es[i]]

RECURSIVE ReportsOf(_)
ReportsOf(lines) ==
    IF lines = <<>> THEN <<>>
    ELSE LET p == ParserSays[Head(lines)]
         IN  (IF p = None THEN <<>>
              ELSE << [kind |-> "captured", text |-> p[1] \o <<"@">> \o p[2]],
                      [kind |-> "hash", text |-> HashSays[Head(lines), format]] >>)
                 \o ReportsOf(Tail(lines))

\* C7: with persistence disabled the output directory stays as it was before
\* the program ran (no directory, no file), and each valid line taken up is
\* still reported on the console.
C7_NoFiles ==
    no_files =>
        /\ fs = Before(no_files, format)
        /\ Reports = ReportsOf(Reported)

C7_Witness ==
    /\ no_files /\ pc = "done"
    /\ processed = <<ValidA, ValidB, ValidC>>
    /\ Len(Reports) = 6
    /\ fs = [dir |-> FALSE, files |-> NoFiles]


\* --------------------------------------------------------------- C8 .. C10
\* what shutdown() leaves behind: the session and the subprocess
Observable(s) ==
    [stop |-> s.stop, proc |-> s.proc, tshark |-> s.tshark, sigterm |-> s.sigterm]

\* C8: in every state the program reaches, shutdown() followed at once by
\* shutdown() leaves the session and the subprocess as one shutdown() does, and
\* neither call raises.
C8_Idempotent ==
    LET once == shutdown(Session)
        twice == shutdown(once)
    IN  /\ Observable(twice) = Observable(once)
        /\ ~once.raised
        /\ ~twice.raised

\* the handler's shutdown() and then the final one, both after the child was reaped
C8_Witness ==
    /\ pc = "done" /\ exc = "none" /\ tshark = "reaped" /\ stop
    /\ Len(console) >= 2
    /\ console[Len(console) - 1].kind = "stopping"
    /\ console[Len(console)].kind = "stopped"

\* The same program with a decoder that writes fewer lines, and the scheduling
\* the liveness claims rest on: the controlling process keeps running, a tshark
\* with a SIGTERM pending ends, an exiting process dies.  Nothing makes the
\* decoder write, exit on its own, or a signal arrive.
tshark_writes_few == writes_line(MaxLiveLines, {ValidC, BlankLine})

LiveNext ==
    \/ start \/ start_fails \/ next_line \/ check_stop \/ process_line
    \/ print_capture \/ write_output \/ write_all_hashes \/ drain \/ finally
    \/ handle_sigint
    \/ tshark_writes_few \/ tshark_exits \/ tshark_terminated \/ tshark_dies

LiveSpec ==
    /\ Init
    /\ [][LiveNext]_vars
    /\ WF_vars(MainStep)
    /\ WF_vars(tshark_terminated)
    /\ WF_vars(tshark_dies)

\* the loop is blocked in its read and the last thing printed is the handler's
\* message: a cancellation request came after the loop's last report
CancelledWhileBlocked ==
    /\ pc = "read" /\ stdout = <<>> /\ tshark = "running"
    /\ console # <<>> /\ console[Len(console)].kind = "stopping"

Stopped == pc = "done"

\* C9: a cancellation request that finds the loop blocked in its read leads to
\* the session being Stopped with the subprocess dead, whether or not the
\* decoder writes another line.
C9_CancelUnblocks ==
    CancelledWhileBlocked ~> (Stopped /\ tshark \in {"zombie", "reaped"})

C9_Witness ==
    /\ Stopped /\ tshark = "reaped" /\ nsig = 1 /\ exc = "none"
    /\ delivered = <<>>
    /\ sent = <<"killpg">>
    /\ Len(console) = 3 /\ console[2].kind = "stopping"

\* C10 as stated: an append that fails does not end the capture loop, which
\* goes on to the next line.
C10_LoopSurvivesAppendError ==
    exc = "AppendError" => pc \notin {"finally", "done"}

\* --------------------------------------------------------------- C11 .. C12
\* tshark has ended with no SIGTERM sent to it: it exited on its own
ExitedOnItsOwn == tshark = "closing" /\ ~sigterm

\* C11: after tshark exits on its own the session reaches Stopped, and the
\* error of signalling a process group that is gone never leaves shutdown().
C11_OwnExitEndsCapture ==
    /\ ExitedOnItsOwn ~> Stopped
    /\ [](exc # "ProcessLookupError")
    /\ []((Stopped /\ sent = <<>> /\ nsig = 0 /\ exc # "AppendError"
              /\ proc # "None")
             => (exc = "none" /\ console[Len(console)].kind = "stopped"))

\* the child reaped after the loop saw end of file, the final killpg refused
C11_Witness ==
    /\ Stopped /\ tshark = "reaped" /\ nsig = 0 /\ sent = <<>>
    /\ exc = "none"
    /\ console[Len(console)].kind = "stopped"

\* C12 as stated: once a shutdown has been requested the loop is never left
\* blocked in its read with a running subprocess that nothing will end.
C12_NeverLeftBlocked ==
    (stop /\ pc = "read" /\ stdout = <<>> /\ tshark = "running") => sigterm

\* --------------------------------------------------------------- C13 .. C14
\* where main() is when no line is being processed: about to read, holding a
\* line not yet tested against the flag, or past the loop
BetweenLines == {"read", "check_stop", "drain", "finally", "done"}

\* C13: once a shutdown is requested and no line is being processed, no step
\* reports or appends anything again: a line obtained from then on is dropped
\* and the loop is left.
C13_NoLineAfterStop ==
    [][(stop /\ pc \in BetweenLines) =>
           /\ pc' \in BetweenLines
           /\ processed' = processed
           /\ Reports' = Reports
           /\ fs' = fs]_vars

\* the request came before the subprocess was started; the line read later
\* was dropped
C13_Witness ==
    /\ Stopped /\ exc = "none"
    /\ console # <<>> /\ console[1].kind = "stopping"
    /\ delivered = <<ValidA>> /\ stdout = <<>> /\ line = ValidA
    /\ processed = <<>> /\ Reports = <<>> /\ fs = fs0

\* C14 as stated: in no Stopped state is the subprocess still running.
C14_StoppedMeansTerminated ==
    Stopped => tshark # "running"

\* --------------------------------------------------------------- C15 .. C16
Positions(what) == {i \in 1..Len(sent) : sent[i] = what}

\* C15 as stated: the process group is signalled only after the lead process
\* alone has been asked to terminate.
C15_TerminateBeforeGroup ==
    \A i \in Positions("killpg") : \E j \in Positions("terminate") : j < i

\* run() has passed its drain step (no exception took it out of the loop)
Drained == pc \in {"finally", "done"} /\ exc \notin {"AppendError", "PopenError"}

\* C15 amended: when the loop ends with the subprocess still alive, the lead
\* process alone is asked to terminate, once, and the final shutdown() signals
\* the group after that; the group signals sent before it are those of the
\* shutdown requests handled while the loop was running.
C15_TerminateBeforeFinalGroup ==
    /\ Cardinality(Positions("terminate")) <= 1
    /\ (Drained /\ proc # "None") =>
           ((tshark = "reaped") # (Positions("terminate") # {}))
    /\ \A j \in Positions("terminate") :
           /\ Cardinality({i \in Positions("killpg") : i < j}) <= nsig
           /\ Stopped => sent[Len(sent)] = "killpg" /\ j < Len(sent)

\* a request, the loop left on the next line, terminate(), the final shutdown()
C15_Witness ==
    /\ Stopped /\ nsig = 1 /\ exc = "none"
    /\ sent = <<"killpg", "terminate", "killpg">>
    /\ tshark = "running"

\* C16: tshark is started only from main()'s start position, which is never
\* entered again, and only when it was never started; once the loop has ended
\* main() stays past it.
C16_LaunchedOnce ==
    [][/\ (tshark' = "running" /\ tshark # "running")
              => (pc = "start" /\ tshark = "unborn" /\ proc = "None")
       /\ pc' = "start" => pc = "start"
       /\ proc = "Popen" => proc' = "Popen"
       /\ pc \in {"drain", "finally", "done"} => pc' \in {"drain", "finally", "done"}
      ]_vars

\* the run over after a failed append, tshark started once
C16_Witness ==
    /\ Stopped /\ exc = "AppendError" /\ proc = "Popen"
    /\ Len(Texts("started")) = 1
    /\ stdout # <<>>

\* --------------------------------------------------------------- C17 .. C18
\* the identity (principal_name, realm) of each line the decoder can write
IdentitySays ==
    [l \in DecoderLines |->
        IF ParserSays[l] = None THEN None ELSE <<ParserSays[l][1], ParserSays[l][2]>>]

\* C17 as stated: two records appended to the same per-identity file have the
\* same (principal_name, realm).
C17_OneIdentityPerFile ==
    (~no_files /\ exc = "none") =>
        \A i, j \in 1..Len(UserDone) :
            (/\ ParserSays[UserDone[i]] # None
             /\ ParserSays[UserDone[j]] # None
             /\ user_file(ParserSays[UserDone[i]][1], ParserSays[UserDone[i]][2])
                    = user_file(ParserSays[UserDone[j]][1], ParserSays[UserDone[j]][2]))
            => IdentitySays[UserDone[i]] = IdentitySays[UserDone[j]]

\* what the run has appended to a file
Appended(name) ==
    SubSeq(Content(fs.files, name), Len(Content(fs0.files, name)) + 1,
           Len(Content(fs.files, name)))

IsPrefix(s, t) == Len(s) <= Len(t) /\ SubSeq(t, 1, Len(s)) = s

RECURSIVE SumAppended(_)
SumAppended(names) ==
    IF names = {} THEN 0
    ELSE LET n == CHOOSE x \in names : TRUE
         IN  Len(Appended(n)) + SumAppended(names \ {n})

\* C18: whatever the run has appended to a file was printed before: the
\* aggregate file's new lines are the first hashes on the console, no
\* per-identity file has a new line the console lacks, and when an append has
\* failed the console already shows that record.
C18_ReportedBeforeAppend ==
    /\ IsPrefix(Appended(AggregateName), ConsoleHashes)
    /\ \A n \in DOMAIN fs.files \ {AggregateName} :
           \A k \in 1..Len(Appended(n)) :
               \E i \in 1..Len(ConsoleHashes) : ConsoleHashes[i] = Appended(n)[k]
    /\ SumAppended(DOMAIN fs.files \ {AggregateName}) <= Len(ConsoleHashes)
    /\ exc = "AppendError" =>
           /\ ConsoleHashes = HashesOf(processed)
           /\ Len(Appended(AggregateName)) < Len(ConsoleHashes)

\* the first record shown, its append to the per-identity file failed
C18_Witness ==
    /\ Stopped /\ exc = "AppendError"
    /\ processed = <<ValidC>>
    /\ Len(ConsoleHashes) = 1
    /\ fs = fs0

\* --------------------------------------------------------------- C19 .. C20
\* C19: a record the parser returned has no '$' in any field, so its hash has
\* five '$' in Hashcat mode and six in John mode, and splitting the hash on '$'
\* gives the three fields back.
C19_FieldsRecoverable ==
    pc = "ret_run" =>
        LET parts == split(hash_str, "$")
        IN  /\ \A k \in 1..3 : parsed[k] # <<>> /\ HasNo("$", parsed[k])
            /\ Dollars(hash_str) = IF format = JOHN THEN 6 ELSE 5
            /\ Len(parts) = Dollars(hash_str) + 1
            /\ parts[4] = parsed[1]
            /\ parts[5] = parsed[2]
            /\ parts[Len(parts)] = parsed[3]

C19_Witness ==
    /\ pc = "ret_run"
    /\ format = JOHN
    /\ line = <<" ", "a", "$", "b", "$", "a">>
    /\ Dollars(hash_str) = 6
    /\ split(hash_str, "$")[7] = <<"a">>

\* C20: with persistence enabled and no append failed, whenever no line is
\* being processed the run has appended as many lines to the aggregate file as
\* to all per-identity files together, whenever the shutdown requests came.
C20_FilesInStep ==
    (~no_files /\ exc # "AppendError" /\ pc \in BetweenLines) =>
        Len(Appended(AggregateName)) =
            SumAppended(DOMAIN fs.files \ {AggregateName})

\* a request handled after the line passed the flag test and before it was
\* shown; the record is in both files
C20_Witness ==
    /\ Stopped /\ ~no_files /\ exc = "none"
    /\ Len(console) = 5
    /\ console[1].kind = "started" /\ console[2].kind = "stopping"
    /\ console[3].kind = "captured" /\ console[4].kind = "hash"
    /\ processed = <<ValidC>>
    /\ Len(Appended(AggregateName)) = 1
    /\ Len(Appended(NameSays[ValidC])) = 1

====
